---- MODULE Spec2Model ----
(***************************************************************************)
(* "Capture the King" (src/app.py): the rule engine of class Game.         *)
(* One King against four Knights on a 5x5 board.  The model keeps the      *)
(* fields of Game that the rules read or write, and has one action per     *)
(* handler of the class.  Every handler is first written as an operator    *)
(* from a game record to a game record (plus the handler's return value),  *)
(* translated statement by statement; the actions apply these operators    *)
(* to the current state.                                                   *)
(***************************************************************************)
EXTENDS Integers, Sequences, FiniteSets, TLC

\* ------------------------------------------------------------ constants

WIDTH == 650
ROWS == 5
COLS == 5
SQUARE_SIZE == WIDTH \div COLS

EMPTY == "."
KING == "K"
KNIGHT == "N"

knight_moves ==
  << <<-2, -1>>, <<-2, 1>>, <<-1, -2>>, <<-1, 2>>,
     <<1, -2>>, <<1, 2>>, <<2, -1>>, <<2, 1>> >>

king_moves ==
  << <<-1, -1>>, <<-1, 0>>, <<-1, 1>>, <<0, -1>>,
     <<0, 1>>, <<1, -1>>, <<1, 0>>, <<1, 1>> >>

\* The module-level list of safe zones: empty in the source.
safe_zones == << >>

\* Python's None (selected_piece_pos when nothing is selected).
None == << >>

\* Kills that win the game for the King, knights that surround him, the turn
\* count of the siege victory, and the cooldown a Royal Charge sets.
\* Knights on the board of a new game.
NumKnights == 4

KillsToWin == 3
SurroundToWin == 3
SiegeTurns == 30
ChargeCooldown == 5

\* ---------------------------------------------------------------- bounds

\* Successful moves explored from reset_game_state.
MaxMoves == 4

\* Successful moves explored from a loaded save file.
MaxLoadMoves == 1

\* Squares (in row order from the top left) on which a save file has knights.
LoadSquareCount == 7


\* ---------------------------------------------------------------- helpers

Squares == (0 .. ROWS - 1) \X (0 .. COLS - 1)

\* Positions outside the grid, one beyond each edge.
OffGrid == {<<-1, 0>>, <<0, -1>>, <<ROWS, COLS - 1>>, <<ROWS \div 2, COLS>>}

\* The squares in the order of "for r in range(ROWS): for c in range(COLS)".
AllSquares == [i \in 1 .. ROWS * COLS |-> <<(i - 1) \div COLS, (i - 1) % COLS>>]

InBounds(r, c) == 0 <= r /\ r < ROWS /\ 0 <= c /\ c < COLS

Contains(list, x) == \E i \in 1 .. Len(list) : list[i] = x

Elements(list) == {list[i] : i \in 1 .. Len(list)}

Abs(x) == IF x < 0 THEN -x ELSE x

\* [(r + dr, c + dc) for dr, dc in offsets]
Targets(r, c, offsets) ==
  [i \in 1 .. Len(offsets) |-> <<r + offsets[i][1], c + offsets[i][2]>>]

\* ------------------------------------------------------------ the board

\* The board is a list of ROWS rows of COLS cells; Python indexes from 0.
Cell(b, r, c) == b[r + 1][c + 1]

Put(b, r, c, piece) == [b EXCEPT ![r + 1][c + 1] = piece]

create_board ==
  [i \in 1 .. ROWS |-> [j \in 1 .. COLS |->
     IF <<i - 1, j - 1>> = <<ROWS \div 2, COLS \div 2>> THEN KING
     ELSE IF <<i - 1, j - 1>> \in
               {<<0, 0>>, <<0, COLS - 1>>, <<ROWS - 1, 0>>, <<ROWS - 1, COLS - 1>>}
          THEN KNIGHT
          ELSE EMPTY]]

get_piece_positions(b, piece_type) ==
  LET Holds(sq) == Cell(b, sq[1], sq[2]) = piece_type
  IN SelectSeq(AllSquares, Holds)

find_king(b) ==
  LET ks == get_piece_positions(b, KING)
  IN IF Len(ks) > 0 THEN ks[1] ELSE <<ROWS \div 2, COLS \div 2>>

\* is_square_under_attack if only the first half of knight_moves (the knights
\* standing above the square) were tested.
is_square_under_attack_from_above(b, r, c) ==
  \E i \in 1 .. Len(knight_moves) \div 2 :
     LET nr == r + knight_moves[i][1]
         nc == c + knight_moves[i][2]
     IN InBounds(nr, nc) /\ Cell(b, nr, nc) = KNIGHT

\* Does some knight stand a knight's move away from (r, c)?
is_square_under_attack(b, r, c) ==
  \E i \in 1 .. Len(knight_moves) :
     LET nr == r + knight_moves[i][1]
         nc == c + knight_moves[i][2]
     IN InBounds(nr, nc) /\ Cell(b, nr, nc) = KNIGHT

\* get_valid_moves if the King's targets were not tested for attack.
get_valid_moves_no_attack_check(b, r, c) ==
  IF ~InBounds(r, c) THEN << >>
  ELSE LET piece == Cell(b, r, c)
           KingTarget(t) ==
             /\ InBounds(t[1], t[2])
             /\ Cell(b, t[1], t[2]) \in {EMPTY, KNIGHT}
           KnightTarget(t) ==
             /\ InBounds(t[1], t[2])
             /\ Cell(b, t[1], t[2]) = EMPTY
       IN IF piece = KING THEN SelectSeq(Targets(r, c, king_moves), KingTarget)
          ELSE IF piece = KNIGHT THEN SelectSeq(Targets(r, c, knight_moves), KnightTarget)
          ELSE << >>

\* get_valid_moves if the attack test were applied to the targets of both
\* pieces.
get_valid_moves_attack_check_for_all(b, r, c) ==
  IF ~InBounds(r, c) THEN << >>
  ELSE LET piece == Cell(b, r, c)
           KingTarget(t) ==
             /\ InBounds(t[1], t[2])
             /\ Cell(b, t[1], t[2]) \in {EMPTY, KNIGHT}
             /\ ~is_square_under_attack(b, t[1], t[2])
           KnightTarget(t) ==
             /\ InBounds(t[1], t[2])
             /\ Cell(b, t[1], t[2]) = EMPTY
             /\ ~is_square_under_attack(b, t[1], t[2])
       IN IF piece = KING THEN SelectSeq(Targets(r, c, king_moves), KingTarget)
          ELSE IF piece = KNIGHT THEN SelectSeq(Targets(r, c, knight_moves), KnightTarget)
          ELSE << >>

\* get_valid_moves if the bounds test of the position had only its upper
\* limits: a negative index then reads the board from its far side.
get_valid_moves_no_lower_bound(b, r, c) ==
  IF ~(r < ROWS /\ c < COLS) THEN << >>
  ELSE LET piece == Cell(b, (r + ROWS) % ROWS, (c + COLS) % COLS)
           KingTarget(t) ==
             /\ InBounds(t[1], t[2])
             /\ Cell(b, t[1], t[2]) \in {EMPTY, KNIGHT}
             /\ ~is_square_under_attack(b, t[1], t[2])
           KnightTarget(t) ==
             /\ InBounds(t[1], t[2])
             /\ Cell(b, t[1], t[2]) = EMPTY
       IN IF piece = KING THEN SelectSeq(Targets(r, c, king_moves), KingTarget)
          ELSE IF piece = KNIGHT THEN SelectSeq(Targets(r, c, knight_moves), KnightTarget)
          ELSE << >>

get_valid_moves(b, r, c) ==
  IF ~InBounds(r, c) THEN << >>
  ELSE LET piece == Cell(b, r, c)
           KingTarget(t) ==
             /\ InBounds(t[1], t[2])
             /\ Cell(b, t[1], t[2]) \in {EMPTY, KNIGHT}
             /\ ~is_square_under_attack(b, t[1], t[2])
           KnightTarget(t) ==
             /\ InBounds(t[1], t[2])
             /\ Cell(b, t[1], t[2]) = EMPTY
       IN IF piece = KING THEN SelectSeq(Targets(r, c, king_moves), KingTarget)
          ELSE IF piece = KNIGHT THEN SelectSeq(Targets(r, c, knight_moves), KnightTarget)
          ELSE << >>

\* Knights a knight's move away from (r, c): the "surrounding_knights" loop.
surrounding_knights(b, r, c) ==
  Cardinality({i \in 1 .. Len(knight_moves) :
     LET nr == r + knight_moves[i][1]
         nc == c + knight_moves[i][2]
     IN InBounds(nr, nc) /\ Cell(b, nr, nc) = KNIGHT})

\* ------------------------------------------------------------ handlers

\* The two modes display_homepage returns.
GameModes == {"pvp", "pva"}

\* reset_game_state: every field but game_mode takes its starting value.
reset_game_state(g) ==
  [game_mode |-> g.game_mode,
   ai_thinking |-> FALSE,
   board |-> create_board,
   king_pos |-> find_king(create_board),
   player_turn |-> 1,
   selected_piece_pos |-> None,
   possible_moves |-> << >>,
   game_over |-> FALSE,
   winner |-> 0,
   king_kills |-> 0,
   turn_count |-> 1,
   move_history |-> << >>,
   king_charge_cooldown |-> 0,
   king_escape_available |-> TRUE]

\* Game(win, game_mode): the constructor keeps the mode and ends with
\* reset_game_state.
Game(game_mode) == reset_game_state([game_mode |-> game_mode])

\* A handler's outcome: the game after it, and what it returned.
Ret(g, ok) == [game |-> g, ok |-> ok]

Ended(g, w) == [g EXCEPT !.winner = w, !.game_over = TRUE]

\* check_game_over with the surround threshold and the first siege turn as
\* parameters, and optionally with the siege test moved to the front.
check_game_over_variant(g, surround_needed, siege_from, siege_first) ==
  IF g.king_pos = None THEN Ended(g, 2)
  ELSE LET kx == g.king_pos[1]
           ky == g.king_pos[2]
           knight_positions == get_piece_positions(g.board, KNIGHT)
       IN IF siege_first /\ g.turn_count >= siege_from THEN Ended(g, 2)
          ELSE IF Contains(safe_zones, g.king_pos) THEN Ended(g, 1)
          ELSE IF g.king_kills >= KillsToWin THEN Ended(g, 1)
          ELSE IF Len(knight_positions) = 0 THEN Ended(g, 1)
          ELSE IF surrounding_knights(g.board, kx, ky) >= surround_needed THEN Ended(g, 2)
          ELSE IF Len(get_valid_moves(g.board, kx, ky)) = 0 THEN Ended(g, 2)
          ELSE IF g.turn_count >= siege_from THEN Ended(g, 2)
          ELSE [g EXCEPT !.winner = 0, !.game_over = FALSE]

\* check_game_over if the siege were tested before the King's victories.
check_game_over_siege_first(g) ==
  check_game_over_variant(g, SurroundToWin, SiegeTurns, TRUE)

\* check_game_over if a surround still needed four knights.
check_game_over_surround_four(g) ==
  check_game_over_variant(g, SurroundToWin + 1, SiegeTurns, FALSE)

\* check_game_over if the siege test were "turn_count > 30".
check_game_over_siege_strict(g) ==
  check_game_over_variant(g, SurroundToWin, SiegeTurns + 1, FALSE)

\* check_game_over if the turn count never ended the game.
check_game_over_no_siege(g) ==
  check_game_over_variant(g, SurroundToWin, 2 * SiegeTurns, FALSE)

check_game_over(g) ==
  IF g.king_pos = None THEN Ended(g, 2)
  ELSE LET kx == g.king_pos[1]
           ky == g.king_pos[2]
           knight_positions == get_piece_positions(g.board, KNIGHT)
       IN IF Contains(safe_zones, g.king_pos) THEN Ended(g, 1)
          ELSE IF g.king_kills >= KillsToWin THEN Ended(g, 1)
          ELSE IF Len(knight_positions) = 0 THEN Ended(g, 1)
          ELSE IF surrounding_knights(g.board, kx, ky) >= SurroundToWin THEN Ended(g, 2)
          ELSE IF Len(get_valid_moves(g.board, kx, ky)) = 0 THEN Ended(g, 2)
          ELSE IF g.turn_count >= SiegeTurns THEN Ended(g, 2)
          ELSE [g EXCEPT !.winner = 0, !.game_over = FALSE]

\* switch_turn if the count rose when the King's turn ended.
switch_turn_counts_king_turn(g) ==
  [g EXCEPT !.turn_count = IF g.player_turn = 1 THEN @ + 1 ELSE @,
            !.player_turn = 3 - g.player_turn]

switch_turn(g) ==
  [g EXCEPT !.turn_count = IF g.player_turn = 2 THEN @ + 1 ELSE @,
            !.player_turn = 3 - g.player_turn]

select_piece_any_side(g, row, col) ==
  IF g.ai_thinking \/ (g.game_mode = "pva" /\ g.player_turn = 2) THEN Ret(g, FALSE)
  ELSE IF /\ InBounds(row, col)
          /\ Cell(g.board, row, col) \in {KING, KNIGHT}
  THEN Ret([g EXCEPT !.selected_piece_pos = <<row, col>>,
                     !.possible_moves = get_valid_moves(g.board, row, col)], TRUE)
  ELSE Ret([g EXCEPT !.selected_piece_pos = None, !.possible_moves = << >>], FALSE)

select_piece(g, row, col) ==
  IF g.ai_thinking \/ (g.game_mode = "pva" /\ g.player_turn = 2) THEN Ret(g, FALSE)
  ELSE IF /\ InBounds(row, col)
          /\ \/ g.player_turn = 1 /\ Cell(g.board, row, col) = KING
             \/ g.player_turn = 2 /\ Cell(g.board, row, col) = KNIGHT
  THEN Ret([g EXCEPT !.selected_piece_pos = <<row, col>>,
                     !.possible_moves = get_valid_moves(g.board, row, col)], TRUE)
  ELSE Ret([g EXCEPT !.selected_piece_pos = None, !.possible_moves = << >>], FALSE)

\* The record attempt_move pushes on move_history before it moves the piece.
move_info(g, end_row, end_col) ==
  [start_pos |-> g.selected_piece_pos,
   end_pos |-> <<end_row, end_col>>,
   piece_moved |-> Cell(g.board, g.selected_piece_pos[1], g.selected_piece_pos[2]),
   piece_captured |-> Cell(g.board, end_row, end_col),
   king_kills_before |-> g.king_kills,
   player_turn_before |-> g.player_turn,
   king_pos_before |-> g.king_pos,
   turn_count_before |-> g.turn_count,
   board_state |-> g.board,
   charge_cd_before |-> g.king_charge_cooldown,
   escape_avail_before |-> g.king_escape_available]

\* execute_move if the start square were not cleared.
execute_move_keeps_start(g, end_row, end_col) ==
  LET start == g.selected_piece_pos
      piece_moved == Cell(g.board, start[1], start[2])
      target_content == Cell(g.board, end_row, end_col)
  IN [g EXCEPT
        !.king_kills = IF piece_moved = KING /\ target_content = KNIGHT THEN @ + 1 ELSE @,
        !.board = Put(@, end_row, end_col, piece_moved),
        !.king_pos = IF piece_moved = KING THEN <<end_row, end_col>> ELSE @,
        !.king_charge_cooldown =
           IF g.player_turn = 1 /\ g.king_charge_cooldown > 0 THEN @ - 1 ELSE @]

\* execute_move if every King move counted as a kill.
execute_move_counts_every_king_move(g, end_row, end_col) ==
  LET start == g.selected_piece_pos
      piece_moved == Cell(g.board, start[1], start[2])
  IN [g EXCEPT
        !.king_kills = IF piece_moved = KING THEN @ + 1 ELSE @,
        !.board = Put(Put(@, start[1], start[2], EMPTY), end_row, end_col, piece_moved),
        !.king_pos = IF piece_moved = KING THEN <<end_row, end_col>> ELSE @,
        !.king_charge_cooldown =
           IF g.player_turn = 1 /\ g.king_charge_cooldown > 0 THEN @ - 1 ELSE @]

\* execute_move if the cooldown ran down on the Knights' moves as well.
execute_move_ticks_on_every_move(g, end_row, end_col) ==
  LET start == g.selected_piece_pos
      piece_moved == Cell(g.board, start[1], start[2])
      target_content == Cell(g.board, end_row, end_col)
  IN [g EXCEPT
        !.king_kills = IF piece_moved = KING /\ target_content = KNIGHT THEN @ + 1 ELSE @,
        !.board = Put(Put(@, start[1], start[2], EMPTY), end_row, end_col, piece_moved),
        !.king_pos = IF piece_moved = KING THEN <<end_row, end_col>> ELSE @,
        !.king_charge_cooldown = IF g.king_charge_cooldown > 0 THEN @ - 1 ELSE @]

\* execute_move if a capture were not counted.
execute_move_no_kill_count(g, end_row, end_col) ==
  LET start == g.selected_piece_pos
      piece_moved == Cell(g.board, start[1], start[2])
  IN [g EXCEPT
        !.board = Put(Put(@, start[1], start[2], EMPTY), end_row, end_col, piece_moved),
        !.king_pos = IF piece_moved = KING THEN <<end_row, end_col>> ELSE @,
        !.king_charge_cooldown =
           IF g.player_turn = 1 /\ g.king_charge_cooldown > 0 THEN @ - 1 ELSE @]

\* Lines 278-294 of attempt_move: the capture count, the two board writes, the
\* cached king position and the cooldown tick.
execute_move(g, end_row, end_col) ==
  LET start == g.selected_piece_pos
      piece_moved == Cell(g.board, start[1], start[2])
      target_content == Cell(g.board, end_row, end_col)
  IN [g EXCEPT
        !.king_kills = IF piece_moved = KING /\ target_content = KNIGHT THEN @ + 1 ELSE @,
        !.board = Put(Put(@, start[1], start[2], EMPTY), end_row, end_col, piece_moved),
        !.king_pos = IF piece_moved = KING THEN <<end_row, end_col>> ELSE @,
        !.king_charge_cooldown =
           IF g.player_turn = 1 /\ g.king_charge_cooldown > 0 THEN @ - 1 ELSE @]

\* attempt_move if the undo record were pushed before the destination is checked.
attempt_move_push_first(g, end_row, end_col) ==
  IF g.selected_piece_pos = None THEN Ret(g, FALSE)
  ELSE LET pushed == [g EXCEPT !.move_history =
                        Append(@, [start_pos |-> g.selected_piece_pos,
                                   end_pos |-> <<end_row, end_col>>,
                                   board_state |-> g.board])]
       IN IF ~Contains(get_valid_moves(g.board, g.selected_piece_pos[1],
                                       g.selected_piece_pos[2]),
                       <<end_row, end_col>>)
          THEN Ret([pushed EXCEPT !.selected_piece_pos = None, !.possible_moves = << >>],
                   FALSE)
          ELSE LET pushed2 == [g EXCEPT !.move_history =
                                 Append(@, move_info(g, end_row, end_col))]
                   moved == execute_move(pushed2, end_row, end_col)
                   checked == check_game_over(switch_turn(moved))
               IN Ret([checked EXCEPT !.selected_piece_pos = None,
                                      !.possible_moves = << >>], TRUE)

\* attempt_move if the record held the live board instead of a copy: after the
\* two board writes its board_state would show the board after the move.
attempt_move_aliases_board(g, end_row, end_col) ==
  IF g.selected_piece_pos = None THEN Ret(g, FALSE)
  ELSE IF ~Contains(get_valid_moves(g.board, g.selected_piece_pos[1], g.selected_piece_pos[2]),
                    <<end_row, end_col>>)
  THEN Ret([g EXCEPT !.selected_piece_pos = None, !.possible_moves = << >>], FALSE)
  ELSE LET moved == execute_move(g, end_row, end_col)
           pushed == [moved EXCEPT !.move_history =
                        Append(@, [move_info(g, end_row, end_col) EXCEPT
                                     !.board_state = moved.board])]
           checked == check_game_over(switch_turn(pushed))
       IN Ret([checked EXCEPT !.selected_piece_pos = None, !.possible_moves = << >>], TRUE)

attempt_move(g, end_row, end_col) ==
  IF g.selected_piece_pos = None THEN Ret(g, FALSE)
  ELSE IF ~Contains(get_valid_moves(g.board, g.selected_piece_pos[1], g.selected_piece_pos[2]),
                    <<end_row, end_col>>)
  THEN Ret([g EXCEPT !.selected_piece_pos = None, !.possible_moves = << >>], FALSE)
  ELSE LET pushed == [g EXCEPT !.move_history = Append(@, move_info(g, end_row, end_col))]
           moved == execute_move(pushed, end_row, end_col)
           checked == check_game_over(switch_turn(moved))
       IN Ret([checked EXCEPT !.selected_piece_pos = None, !.possible_moves = << >>], TRUE)

\* undo_last_move if the cooldown came back as the default 0 of
\* last_move.get("charge_cd_before", 0) instead of the recorded value.
undo_last_move_default_cooldown(g) ==
  IF Len(g.move_history) = 0 THEN Ret(g, FALSE)
  ELSE LET last_move == g.move_history[Len(g.move_history)]
       IN Ret([g EXCEPT
                 !.move_history = SubSeq(@, 1, Len(@) - 1),
                 !.board = last_move.board_state,
                 !.king_kills = last_move.king_kills_before,
                 !.player_turn = last_move.player_turn_before,
                 !.king_pos = last_move.king_pos_before,
                 !.turn_count = last_move.turn_count_before,
                 !.king_charge_cooldown = 0,
                 !.king_escape_available = last_move.escape_avail_before,
                 !.selected_piece_pos = None,
                 !.possible_moves = << >>,
                 !.game_over = FALSE,
                 !.winner = 0], TRUE)

\* undo_last_move if the kill count were not put back.
undo_last_move_keeps_kills(g) ==
  IF Len(g.move_history) = 0 THEN Ret(g, FALSE)
  ELSE LET last_move == g.move_history[Len(g.move_history)]
       IN Ret([g EXCEPT
                 !.move_history = SubSeq(@, 1, Len(@) - 1),
                 !.board = last_move.board_state,
                 !.player_turn = last_move.player_turn_before,
                 !.king_pos = last_move.king_pos_before,
                 !.turn_count = last_move.turn_count_before,
                 !.king_charge_cooldown = last_move.charge_cd_before,
                 !.king_escape_available = last_move.escape_avail_before,
                 !.selected_piece_pos = None,
                 !.possible_moves = << >>,
                 !.game_over = FALSE,
                 !.winner = 0], TRUE)

\* undo_last_move if an empty history did not return early and the fields
\* took the defaults of an empty record.
undo_last_move_defaults_on_empty(g) ==
  IF Len(g.move_history) = 0
  THEN Ret([g EXCEPT !.king_charge_cooldown = 0,
                     !.king_escape_available = TRUE,
                     !.selected_piece_pos = None,
                     !.possible_moves = << >>,
                     !.game_over = FALSE,
                     !.winner = 0], FALSE)
  ELSE LET last_move == g.move_history[Len(g.move_history)]
       IN Ret([g EXCEPT
                 !.move_history = SubSeq(@, 1, Len(@) - 1),
                 !.board = last_move.board_state,
                 !.king_kills = last_move.king_kills_before,
                 !.player_turn = last_move.player_turn_before,
                 !.king_pos = last_move.king_pos_before,
                 !.turn_count = last_move.turn_count_before,
                 !.king_charge_cooldown = last_move.charge_cd_before,
                 !.king_escape_available = last_move.escape_avail_before,
                 !.selected_piece_pos = None,
                 !.possible_moves = << >>,
                 !.game_over = FALSE,
                 !.winner = 0], TRUE)

\* undo_last_move if winner were left as the undone move set it.
undo_last_move_keeps_winner(g) ==
  IF Len(g.move_history) = 0 THEN Ret(g, FALSE)
  ELSE LET last_move == g.move_history[Len(g.move_history)]
       IN Ret([g EXCEPT
                 !.move_history = SubSeq(@, 1, Len(@) - 1),
                 !.board = last_move.board_state,
                 !.king_kills = last_move.king_kills_before,
                 !.player_turn = last_move.player_turn_before,
                 !.king_pos = last_move.king_pos_before,
                 !.turn_count = last_move.turn_count_before,
                 !.king_charge_cooldown = last_move.charge_cd_before,
                 !.king_escape_available = last_move.escape_avail_before,
                 !.selected_piece_pos = None,
                 !.possible_moves = << >>,
                 !.game_over = FALSE], TRUE)

\* undo_last_move if the turn count were not put back.
undo_last_move_keeps_turn_count(g) ==
  IF Len(g.move_history) = 0 THEN Ret(g, FALSE)
  ELSE LET last_move == g.move_history[Len(g.move_history)]
       IN Ret([g EXCEPT
                 !.move_history = SubSeq(@, 1, Len(@) - 1),
                 !.board = last_move.board_state,
                 !.king_kills = last_move.king_kills_before,
                 !.player_turn = last_move.player_turn_before,
                 !.king_pos = last_move.king_pos_before,
                 !.king_charge_cooldown = last_move.charge_cd_before,
                 !.king_escape_available = last_move.escape_avail_before,
                 !.selected_piece_pos = None,
                 !.possible_moves = << >>,
                 !.game_over = FALSE,
                 !.winner = 0], TRUE)

undo_last_move(g) ==
  IF Len(g.move_history) = 0 THEN Ret(g, FALSE)
  ELSE LET last_move == g.move_history[Len(g.move_history)]
       IN Ret([g EXCEPT
                 !.move_history = SubSeq(@, 1, Len(@) - 1),
                 !.board = last_move.board_state,
                 !.king_kills = last_move.king_kills_before,
                 !.player_turn = last_move.player_turn_before,
                 !.king_pos = last_move.king_pos_before,
                 !.turn_count = last_move.turn_count_before,
                 !.king_charge_cooldown = last_move.charge_cd_before,
                 !.king_escape_available = last_move.escape_avail_before,
                 !.selected_piece_pos = None,
                 !.possible_moves = << >>,
                 !.game_over = FALSE,
                 !.winner = 0], TRUE)

\* extended_moves if the charge targets were not tested for attack.
extended_moves_no_attack_check(g) ==
  LET ChargeTarget(t) ==
        /\ InBounds(t[1], t[2])
        /\ Cell(g.board, t[1], t[2]) \in {EMPTY, KNIGHT}
      twice == [i \in 1 .. Len(king_moves) |-> <<2 * king_moves[i][1], 2 * king_moves[i][2]>>]
  IN SelectSeq(Targets(g.king_pos[1], g.king_pos[2], twice), ChargeTarget)

\* The squares two steps away along the eight king directions that qualify.
extended_moves(g) ==
  LET ChargeTarget(t) ==
        /\ InBounds(t[1], t[2])
        /\ Cell(g.board, t[1], t[2]) \in {EMPTY, KNIGHT}
        /\ ~is_square_under_attack(g.board, t[1], t[2])
      twice == [i \in 1 .. Len(king_moves) |-> <<2 * king_moves[i][1], 2 * king_moves[i][2]>>]
  IN SelectSeq(Targets(g.king_pos[1], g.king_pos[2], twice), ChargeTarget)

\* activate_royal_charge if the cooldown were not tested.
activate_royal_charge_ignores_cooldown(g) ==
  IF g.player_turn # 1 THEN Ret(g, FALSE)
  ELSE IF Len(extended_moves(g)) > 0
  THEN Ret([g EXCEPT !.selected_piece_pos = g.king_pos,
                     !.possible_moves = extended_moves(g),
                     !.king_charge_cooldown = ChargeCooldown], TRUE)
  ELSE Ret(g, FALSE)

activate_royal_charge(g) ==
  IF g.player_turn # 1 \/ g.king_charge_cooldown > 0 THEN Ret(g, FALSE)
  ELSE IF Len(extended_moves(g)) > 0
  THEN Ret([g EXCEPT !.selected_piece_pos = g.king_pos,
                     !.possible_moves = extended_moves(g),
                     !.king_charge_cooldown = ChargeCooldown], TRUE)
  ELSE Ret(g, FALSE)

\* The class defines activate_royal_escape twice; the second definition (a
\* stub that only logs) replaces the first when the class body is executed.
activate_royal_escape(g) == Ret(g, FALSE)

\* What load_game_state installs from a save file (a record of the pickled
\* fields): every field of the file, and no selection.
load_game_state(g, file) ==
  [g EXCEPT !.game_mode = file.game_mode,
            !.board = file.board,
            !.player_turn = file.player_turn,
            !.king_pos = file.king_pos,
            !.king_kills = file.king_kills,
            !.turn_count = file.turn_count,
            !.game_over = file.game_over,
            !.winner = file.winner,
            !.move_history = file.move_history,
            !.king_charge_cooldown = file.king_charge_cooldown,
            !.king_escape_available = file.king_escape_available,
            !.selected_piece_pos = None,
            !.possible_moves = << >>]

\* handle_click at window position pos = (x, y): nothing while the AI thinks
\* or on the Knights' turn of a game against the AI, a new game when the game
\* is over, else a move attempt when a piece is selected and a selection when
\* none is.
handle_click(g, pos) ==
  IF g.ai_thinking \/ (g.game_mode = "pva" /\ g.player_turn = 2) THEN g
  ELSE IF g.game_over THEN reset_game_state(g)
  ELSE LET col == pos[1] \div SQUARE_SIZE
           row == pos[2] \div SQUARE_SIZE
       IN IF g.selected_piece_pos # None
          THEN attempt_move(g, row, col).game
          ELSE select_piece(g, row, col).game

\* The keys handle_keypress tells apart, and one it ignores.
Keys == {"u", "s", "l", "c", "e", "x"}

\* handle_keypress with key pressed; file is what savegame.pkl holds when the
\* key is "l".  save_game_state writes the file and leaves the game as it is.
\* handle_keypress if it did not return while the AI thinks.
handle_keypress_while_thinking(g, key, file) ==
  IF g.game_over THEN g
  ELSE LET first == IF key = "u" THEN undo_last_move(g).game
                    ELSE IF key = "s" THEN g
                    ELSE IF key = "l" THEN load_game_state(g, file)
                    ELSE g
       IN IF first.player_turn = 1
          THEN IF key = "c" THEN activate_royal_charge(first).game
               ELSE IF key = "e" THEN activate_royal_escape(first).game
               ELSE first
          ELSE first

handle_keypress(g, key, file) ==
  IF g.ai_thinking \/ g.game_over THEN g
  ELSE LET first == IF key = "u" THEN undo_last_move(g).game
                    ELSE IF key = "s" THEN g
                    ELSE IF key = "l" THEN load_game_state(g, file)
                    ELSE g
       IN IF first.player_turn = 1
          THEN IF key = "c" THEN activate_royal_charge(first).game
               ELSE IF key = "e" THEN activate_royal_escape(first).game
               ELSE first
          ELSE first

\* ---------------------------------------------------------------- the AI

Manhattan(a, b) == Abs(a[1] - b[1]) + Abs(a[2] - b[2])

RECURSIVE SumSeq(_)
SumSeq(s) == IF s = << >> THEN 0 ELSE Head(s) + SumSeq(Tail(s))

\* How often the loop over potential_moves in evaluate_board adds 5: once for
\* every move of every knight that ends within Manhattan distance 2 of the
\* King.
close_potential_moves(b, king_pos) ==
  LET knight_positions == get_piece_positions(b, KNIGHT)
  IN SumSeq([i \in 1 .. Len(knight_positions) |->
        LET potential_moves ==
              get_valid_moves(b, knight_positions[i][1], knight_positions[i][2])
            Close(t) == Manhattan(t, king_pos) <= 2
        IN Len(SelectSeq(potential_moves, Close))])

\* evaluate_board on board b with the King at king_pos.  The source divides
\* the total distance by the number of knights; the operator gives the score
\* multiplied by that number (by 1 when there is no knight), which is an
\* integer and orders the boards of one ai_make_move call, all with the same
\* knights, as the quotient does.
evaluate_board(b, king_pos, turn_count) ==
  IF king_pos = None THEN -1000
  ELSE LET king_r == king_pos[1]
           king_c == king_pos[2]
           knight_positions == get_piece_positions(b, KNIGHT)
           n == Len(knight_positions)
           king_valid_moves == get_valid_moves(b, king_r, king_c)
           total_distance ==
             SumSeq([i \in 1 .. n |-> Manhattan(knight_positions[i], king_pos)])
           close_moves == close_potential_moves(b, king_pos)
           near_safe ==
             Cardinality({<<i, j>> \in (1 .. Len(safe_zones)) \X (1 .. n) :
                Manhattan(knight_positions[j], safe_zones[i]) <= 2})
           king_to_safe_distances ==
             [i \in 1 .. Len(safe_zones) |-> Manhattan(king_pos, safe_zones[i])]
           min_distance ==
             IF Len(safe_zones) = 0 THEN 0
             ELSE CHOOSE d \in Elements(king_to_safe_distances) :
                    \A e \in Elements(king_to_safe_distances) : d <= e
           blocking ==
             Cardinality({<<j, i>> \in (1 .. n) \X (1 .. Len(safe_zones)) :
                /\ Manhattan(king_pos, safe_zones[i]) = min_distance
                /\ Manhattan(safe_zones[i], knight_positions[j]) <= 2})
           whole ==
             n * 15 - Len(king_valid_moves) * 10 + close_moves * 5
               + surrounding_knights(b, king_r, king_c) * 20
               + near_safe * 10 + blocking * 15
               + (IF is_square_under_attack(b, king_r, king_c) THEN 25 ELSE 0)
               + turn_count * 2
       IN IF n = 0 THEN whole ELSE n * whole + (7 * n - total_distance) * 8

\* possible_ai_moves if every pair were built with the first knight as its
\* start square.
possible_ai_moves_stale_start(g) ==
  LET knight_positions == get_piece_positions(g.board, KNIGHT)
      MovesOf(start) ==
        LET valid_moves == get_valid_moves(g.board, start[1], start[2])
        IN [i \in 1 .. Len(valid_moves) |-> <<knight_positions[1], valid_moves[i]>>]
      RECURSIVE Concat(_)
      Concat(i) ==
        IF i > Len(knight_positions) THEN << >>
        ELSE MovesOf(knight_positions[i]) \o Concat(i + 1)
  IN Concat(1)

\* possible_ai_moves: every (start, end) of every knight, in the order built.
possible_ai_moves(g) ==
  LET knight_positions == get_piece_positions(g.board, KNIGHT)
      MovesOf(start) ==
        LET valid_moves == get_valid_moves(g.board, start[1], start[2])
        IN [i \in 1 .. Len(valid_moves) |-> <<start, valid_moves[i]>>]
      RECURSIVE Concat(_)
      Concat(i) ==
        IF i > Len(knight_positions) THEN << >>
        ELSE MovesOf(knight_positions[i]) \o Concat(i + 1)
  IN Concat(1)

\* The scratch mutation of ai_make_move: the board of g with the piece of move
\* mv taken from its start square and put on its end square.
ai_try(g, mv) ==
  LET start == mv[1]
      end == mv[2]
      piece_moved == Cell(g.board, start[1], start[2])
  IN Put(Put(g.board, start[1], start[2], EMPTY), end[1], end[2], piece_moved)

\* The score ai_make_move gives a move: evaluate_board on the board with the
\* knight moved, the King and the turn count as they are.
ai_score(g, mv) == evaluate_board(ai_try(g, mv), g.king_pos, g.turn_count)

\* The loop state of ai_make_move before the first move is scored:
\* best_score is minus infinity (no_score), candidate_moves is empty.
ai_start(g) ==
  [game |-> g, no_score |-> TRUE, best_score |-> 0, candidate_moves |-> << >>]

\* One pass of the scoring loop if moves of equal score were not collected.
ai_consider_first_only(acc, mv, current_board_state, current_king_pos) ==
  LET score == ai_score(acc.game, mv)
      restored == [acc.game EXCEPT !.board = current_board_state,
                                   !.king_pos = current_king_pos]
  IN IF acc.no_score \/ score > acc.best_score
     THEN [game |-> restored, no_score |-> FALSE, best_score |-> score,
           candidate_moves |-> <<mv>>]
     ELSE [acc EXCEPT !.game = restored]

\* One pass of the scoring loop if the board were not put back.
ai_consider_no_restore(acc, mv, current_board_state, current_king_pos) ==
  LET score == ai_score(acc.game, mv)
      left == [acc.game EXCEPT !.board = ai_try(acc.game, mv)]
  IN IF acc.no_score \/ score > acc.best_score
     THEN [game |-> left, no_score |-> FALSE, best_score |-> score,
           candidate_moves |-> <<mv>>]
     ELSE IF score = acc.best_score
     THEN [acc EXCEPT !.game = left, !.candidate_moves = Append(@, mv)]
     ELSE [acc EXCEPT !.game = left]

\* One pass of the scoring loop: move the piece on the board, score the
\* board, put the saved board and king_pos back, and keep the move when its
\* score is the best so far (alone when better, with the others when equal).
ai_consider(acc, mv, current_board_state, current_king_pos) ==
  LET score == ai_score(acc.game, mv)
      restored == [acc.game EXCEPT !.board = current_board_state,
                                   !.king_pos = current_king_pos]
  IN IF acc.no_score \/ score > acc.best_score
     THEN [game |-> restored, no_score |-> FALSE, best_score |-> score,
           candidate_moves |-> <<mv>>]
     ELSE IF score = acc.best_score
     THEN [acc EXCEPT !.game = restored, !.candidate_moves = Append(@, mv)]
     ELSE [acc EXCEPT !.game = restored]

\* The scoring loop over moves[i], moves[i + 1], ...
RECURSIVE ai_scan(_, _, _, _, _)
ai_scan(acc, moves, i, current_board_state, current_king_pos) ==
  IF i > Len(moves) THEN acc
  ELSE ai_scan(ai_consider(acc, moves[i], current_board_state, current_king_pos),
               moves, i + 1, current_board_state, current_king_pos)

\* ai_make_move: the game after the call and the moves it can return: None
\* when no knight has a move, else any of candidate_moves (random.choice).
\* The source compares floating-point scores and evaluate_board here is the
\* score times the number of knights; the two orders agree on every board of
\* one King and one to four knights at turn counts 1 to 32.
ai_make_move(g) ==
  IF possible_ai_moves(g) = << >>
  THEN [game |-> [g EXCEPT !.ai_thinking = FALSE], moves |-> {None}]
  ELSE LET thinking == [g EXCEPT !.ai_thinking = TRUE]
           done == ai_scan(ai_start(thinking), possible_ai_moves(g), 1, g.board, g.king_pos)
       IN [game |-> [done.game EXCEPT !.ai_thinking = FALSE],
           moves |-> Elements(done.candidate_moves)]

\* ---------------------------------------------------------------- state

\* game: the Game object, a record of its fields.
\* moves_left: the successful moves this behaviour may still make (bounds the
\* search; the program has no such limit).
VARIABLES game, moves_left

vars == <<game, moves_left>>

\* The positions a caller passes: every square of the grid and a few
\* positions outside it.
Inputs == Squares \cup OffGrid

Init ==
  /\ \E game_mode \in GameModes : game = Game(game_mode)
  /\ moves_left = MaxMoves

SelectPiece ==
  \E pos \in Inputs :
     /\ game' = select_piece(game, pos[1], pos[2]).game
     /\ UNCHANGED moves_left

AttemptMove ==
  \E pos \in Inputs :
     \E res \in {attempt_move(game, pos[1], pos[2])} :
        /\ res.ok => moves_left > 0
        /\ game' = res.game
        /\ moves_left' = IF res.ok THEN moves_left - 1 ELSE moves_left

UndoLastMove ==
  /\ game' = undo_last_move(game).game
  /\ UNCHANGED moves_left

ActivateRoyalCharge ==
  /\ game' = activate_royal_charge(game).game
  /\ UNCHANGED moves_left

ActivateRoyalEscape ==
  /\ game' = activate_royal_escape(game).game
  /\ UNCHANGED moves_left

\* The "AI Turn Logic" of main: on the Knights' turn of a game that is not
\* over, ai_make_move picks a move, main selects its start square and calls
\* attempt_move with its end square; nothing happens when there is no move.
AiTurn ==
  /\ game.game_mode = "pva"
  /\ game.player_turn = 2
  /\ ~game.game_over
  /\ ~game.ai_thinking
  /\ \E made \in {ai_make_move(game)} :
        \E ai_move \in made.moves :
           IF ai_move = None
           THEN game' = made.game /\ UNCHANGED moves_left
           ELSE \E res \in {attempt_move([made.game EXCEPT !.selected_piece_pos = ai_move[1]],
                                         ai_move[2][1], ai_move[2][2])} :
                   /\ res.ok => moves_left > 0
                   /\ game' = res.game
                   /\ moves_left' = IF res.ok THEN moves_left - 1 ELSE moves_left

Next ==
  \/ SelectPiece
  \/ AttemptMove
  \/ UndoLastMove
  \/ ActivateRoyalCharge
  \/ ActivateRoyalEscape
  \/ AiTurn

\* A new game in either mode, its methods called in any order.
Spec == Init /\ [][Next]_vars

\* ------------------------------------------------- games from a save file

\* The save files drawn: the King on his home square, up to NumKnights knights
\* on the first LoadSquareCount squares of the board, as many kills as knights
\* are missing, either side to move, early or at the siege limit.
LoadSquares == {AllSquares[i] : i \in 1 .. LoadSquareCount}

KnightPlacements == {ks \in SUBSET LoadSquares : Cardinality(ks) <= NumKnights}

PlaceKnights(ks) ==
  [i \in 1 .. ROWS |-> [j \in 1 .. COLS |->
     IF <<i - 1, j - 1>> = <<ROWS \div 2, COLS \div 2>> THEN KING
     ELSE IF <<i - 1, j - 1>> \in ks THEN KNIGHT
     ELSE EMPTY]]

LoadedTurnCounts == {1, SiegeTurns - 1, SiegeTurns}

SaveFiles ==
  {[board |-> PlaceKnights(ks),
    game_mode |-> game_mode,
    player_turn |-> turn,
    king_pos |-> <<ROWS \div 2, COLS \div 2>>,
    king_kills |-> NumKnights - Cardinality(ks),
    turn_count |-> tc,
    game_over |-> FALSE,
    winner |-> 0,
    move_history |-> << >>,
    king_charge_cooldown |-> 0,
    king_escape_available |-> TRUE] :
     ks \in KnightPlacements, turn \in {1, 2}, tc \in LoadedTurnCounts,
     game_mode \in GameModes}

LoadInit ==
  /\ \E file \in SaveFiles : game = load_game_state(Game("pvp"), file)
  /\ moves_left = MaxLoadMoves

\* A game continued from a loaded save file.
LoadSpec == LoadInit /\ [][Next]_vars

\* ------------------------------------------------------- the loop of main

\* Successful moves explored in a game driven by main.
MaxDriverMoves == 2

\* The squares, in reading order from the top left corner, on which the save
\* files of such a game hold knights.
DriverSquareCount == 5

\* The save files savegame.pkl can hold in a game driven by main, where
\* save_game_state is reached only through handle_keypress while the game is
\* not over: positions in progress, here late in the game.
DriverSaveFiles ==
  {file \in SaveFiles :
     /\ \A i \in DriverSquareCount + 1 .. LoadSquareCount :
           Cell(file.board, AllSquares[i][1], AllSquares[i][2]) # KNIGHT
     /\ file.turn_count = SiegeTurns - 1
     /\ ~check_game_over(load_game_state(Game("pvp"), file)).game_over}

\* The window positions clicked: the centre of every square.
ClickPositions ==
  {<<c * SQUARE_SIZE + SQUARE_SIZE \div 2, r * SQUARE_SIZE + SQUARE_SIZE \div 2>> :
     r \in 0 .. ROWS - 1, c \in 0 .. COLS - 1}

\* A game chosen on the homepage, or one continued from a save file.
DriverInit ==
  /\ \/ \E game_mode \in GameModes : game = Game(game_mode)
     \/ \E file \in DriverSaveFiles : game = load_game_state(Game("pvp"), file)
  /\ moves_left = MaxDriverMoves

\* The condition of the "AI Turn Logic" block.
AiToMove(g) ==
  g.game_mode = "pva" /\ g.player_turn = 2 /\ ~g.game_over /\ ~g.ai_thinking

\* ai_make_move up to its first statement: the flag is up while the board is
\* drawn and the delay runs.
MainAiBegin ==
  /\ AiToMove(game)
  /\ game' = [game EXCEPT !.ai_thinking = TRUE]
  /\ UNCHANGED moves_left

\* The rest of ai_make_move and of the block: the move is chosen, the flag
\* comes down, main selects the start square and attempts the move.
MainAiFinish ==
  /\ game.ai_thinking
  /\ \E made \in {ai_make_move(game)} :
        \E ai_move \in made.moves :
           IF ai_move = None
           THEN game' = made.game /\ UNCHANGED moves_left
           ELSE \E res \in {attempt_move([made.game EXCEPT !.selected_piece_pos = ai_move[1]],
                                         ai_move[2][1], ai_move[2][2])} :
                   /\ res.ok => moves_left > 0
                   /\ game' = res.game
                   /\ moves_left' = IF res.ok THEN moves_left - 1 ELSE moves_left

\* A left click while the game is not over.
MainClick ==
  /\ ~game.ai_thinking
  /\ ~game.game_over
  /\ \E pos \in ClickPositions :
        /\ game' = handle_click(game, pos)
        /\ Len(game'.move_history) > Len(game.move_history) => moves_left > 0
        /\ moves_left' = moves_left - (Len(game'.move_history) - Len(game.move_history))

\* A key pressed while the game is not over.
MainKeypress ==
  /\ ~game.ai_thinking
  /\ ~game.game_over
  /\ \E key \in Keys :
        \E file \in IF key = "l" THEN DriverSaveFiles ELSE {<< >>} :
           game' = handle_keypress(game, key, file)
  /\ UNCHANGED moves_left

\* A left click once the game is over: the inner loop ends, the homepage asks
\* for a mode and a new Game is made.
MainRestart ==
  /\ ~game.ai_thinking
  /\ game.game_over
  /\ \E game_mode \in GameModes : game' = Game(game_mode)
  /\ UNCHANGED moves_left

DriverNext ==
  \/ MainAiBegin
  \/ MainAiFinish
  \/ MainClick
  \/ MainKeypress
  \/ MainRestart

\* A game played through the window.
DriverSpec == DriverInit /\ [][DriverNext]_vars

\* ----------------------------------------------------- geometry of the claims

\* The board geometry as the specification words it, written without the
\* offset lists of the source.
KnightOffset(a, b) == {Abs(a[1] - b[1]), Abs(a[2] - b[2])} = {1, 2}

Adjacent(a, b) == a # b /\ Abs(a[1] - b[1]) <= 1 /\ Abs(a[2] - b[2]) <= 1

TwoSteps(a, b) == a # b /\ {Abs(a[1] - b[1]), Abs(a[2] - b[2])} \subseteq {0, 2}

PieceAt(b, sq) == IF sq \in Squares THEN Cell(b, sq[1], sq[2]) ELSE "off the board"

KnightSquares(b) == {sq \in Squares : PieceAt(b, sq) = KNIGHT}

KingSquares(b) == {sq \in Squares : PieceAt(b, sq) = KING}

UnderAttack(b, sq) == \E n \in KnightSquares(b) : KnightOffset(n, sq)

\* The legal-move set of the piece at the selected square ("from").
LegalFromSelection(g) ==
  IF g.selected_piece_pos = None THEN {}
  ELSE Elements(get_valid_moves(g.board, g.selected_piece_pos[1], g.selected_piece_pos[2]))

\* The last record of the move history.
LastMove(g) == g.move_history[Len(g.move_history)]

\* --------------------------------------------------------------- claims

\* C1: in every reachable state the board holds exactly one King cell, and
\* the cached king_pos is the position of that cell.
C1_OneKingAtKingPos == KingSquares(game.board) = {game.king_pos}

\* C1 witness: the King has moved off his home square and captured a knight.
C1_Witness ==
  /\ game.king_kills >= 1
  /\ game.king_pos # <<ROWS \div 2, COLS \div 2>>
  /\ Cardinality(KnightSquares(game.board)) = NumKnights - 1
  /\ KingSquares(game.board) = {game.king_pos}

\* C2: round trip.  In every reachable state, for every destination: if
\* attempt_move succeeds, undo_last_move right after it succeeds and gives
\* back the board, turn, turn count, kill count, king position, charge
\* cooldown, escape flag and move history of the state before the move.
C2_RoundTrip ==
  \A pos \in Inputs :
     LET res == attempt_move(game, pos[1], pos[2])
         back == undo_last_move(res.game)
     IN res.ok =>
          /\ back.ok
          /\ back.game.board = game.board
          /\ back.game.player_turn = game.player_turn
          /\ back.game.turn_count = game.turn_count
          /\ back.game.king_kills = game.king_kills
          /\ back.game.king_pos = game.king_pos
          /\ back.game.king_charge_cooldown = game.king_charge_cooldown
          /\ back.game.king_escape_available = game.king_escape_available
          /\ back.game.move_history = game.move_history

\* C2 witness: after earlier moves and with the charge cooldown running, a
\* capturing King move is legal; applying it changes board, kills, turn,
\* cooldown and history, and undoing it gives the kill count back.
C2_Witness ==
  /\ Len(game.move_history) >= 2
  /\ game.king_charge_cooldown > 0
  /\ \E pos \in Squares :
        LET res == attempt_move(game, pos[1], pos[2])
        IN /\ res.ok
           /\ res.game.king_kills = game.king_kills + 1
           /\ res.game.king_charge_cooldown = game.king_charge_cooldown - 1
           /\ undo_last_move(res.game).game.king_kills = game.king_kills

\* C3: in every reachable state, attempt_move to a destination that is not a
\* legal move of the selected piece returns False and leaves the board, turn,
\* turn count, kill count, king position, cooldown, escape flag, game_over,
\* winner and move history as they were; the selection and the possible
\* moves are cleared.
C3_IllegalMoveChangesNothing ==
  \A pos \in Inputs :
     LET res == attempt_move(game, pos[1], pos[2])
     IN pos \notin LegalFromSelection(game) =>
          /\ ~res.ok
          /\ res.game.board = game.board
          /\ res.game.player_turn = game.player_turn
          /\ res.game.turn_count = game.turn_count
          /\ res.game.king_kills = game.king_kills
          /\ res.game.king_pos = game.king_pos
          /\ res.game.king_charge_cooldown = game.king_charge_cooldown
          /\ res.game.king_escape_available = game.king_escape_available
          /\ res.game.game_over = game.game_over
          /\ res.game.winner = game.winner
          /\ res.game.move_history = game.move_history
          /\ res.game.selected_piece_pos = None
          /\ res.game.possible_moves = << >>

\* C3 witness: after a move has been made, a Royal Charge has offered
\* two-step squares, and attempt_move to one of them is refused for not being
\* a legal move of the King.
C3_Witness ==
  /\ Len(game.move_history) >= 1
  /\ game.selected_piece_pos = game.king_pos
  /\ game.king_charge_cooldown = ChargeCooldown
  /\ \E pos \in Elements(game.possible_moves) :
        /\ pos \notin LegalFromSelection(game)
        /\ ~attempt_move(game, pos[1], pos[2]).ok
        /\ attempt_move(game, pos[1], pos[2]).game.selected_piece_pos = None

\* C4: on every reachable board and for every position, the valid moves of a
\* Knight are squares of the grid a knight's move away that are Empty, and
\* the valid moves of the King are adjacent squares of the grid that hold
\* Empty or a Knight and have no Knight a knight's move away.
C4_LegalMovesSound ==
  \A pos \in Inputs :
     \A t \in Elements(get_valid_moves(game.board, pos[1], pos[2])) :
        /\ t \in Squares
        /\ PieceAt(game.board, pos) \in {KING, KNIGHT}
        /\ PieceAt(game.board, pos) = KNIGHT =>
              /\ KnightOffset(pos, t)
              /\ PieceAt(game.board, t) = EMPTY
        /\ PieceAt(game.board, pos) = KING =>
              /\ Adjacent(pos, t)
              /\ PieceAt(game.board, t) \in {EMPTY, KNIGHT}
              /\ ~UnderAttack(game.board, t)

\* C4 witness: the King stands next to a Knight he may not take because the
\* square is attacked, next to a Knight he may take, and a Knight has a
\* knight's-move square that is occupied and so left out of its moves.
C4_Witness ==
  /\ \E t \in KnightSquares(game.board) :
        /\ Adjacent(game.king_pos, t)
        /\ UnderAttack(game.board, t)
        /\ ~Contains(get_valid_moves(game.board, game.king_pos[1], game.king_pos[2]), t)
  /\ \E t \in KnightSquares(game.board) :
        Contains(get_valid_moves(game.board, game.king_pos[1], game.king_pos[2]), t)
  /\ \E n \in KnightSquares(game.board), t \in Squares :
        /\ KnightOffset(n, t)
        /\ PieceAt(game.board, t) # EMPTY
        /\ ~Contains(get_valid_moves(game.board, n[1], n[2]), t)

\* The six terminal conditions of the specification, in its order, on game g.
TerminalConditions(g) ==
  << g.king_pos \in Elements(safe_zones),
     g.king_kills >= 3,
     KnightSquares(g.board) = {},
     Cardinality({n \in KnightSquares(g.board) : KnightOffset(n, g.king_pos)}) >= 3,
     ~\E t \in Squares :
         /\ Adjacent(g.king_pos, t)
         /\ PieceAt(g.board, t) \in {EMPTY, KNIGHT}
         /\ ~UnderAttack(g.board, t),
     g.turn_count >= 30 >>

\* The winner each condition names.
TerminalWinners == <<1, 1, 1, 2, 2, 2>>

\* <<game_over, winner>> as the first true condition decides them.
FirstTrueOutcome(g) ==
  LET conds == TerminalConditions(g)
      true_ones == {i \in 1 .. 6 : conds[i]}
  IN IF true_ones = {} THEN <<FALSE, 0>>
     ELSE <<TRUE, TerminalWinners[CHOOSE i \in true_ones : \A j \in true_ones : i <= j]>>

C6_SurroundEndsGame ==
  \A pos \in Inputs :
     LET res == attempt_move(game, pos[1], pos[2])
     IN ( /\ res.ok
          /\ game.player_turn = 2
          /\ Cardinality({n \in KnightSquares(res.game.board) :
                            KnightOffset(n, res.game.king_pos)}) >= 3
          /\ res.game.king_pos \notin Elements(safe_zones)
          /\ res.game.king_kills < 3 )
        => res.game.game_over /\ res.game.winner = 2

\* C6 witness: a Knight has just moved, three Knights now stand a knight's
\* move from the King, the Knights have won, and neither the siege nor a
\* King without moves is the reason.
C6_Witness ==
  /\ Len(game.move_history) >= 1
  /\ LastMove(game).piece_moved = KNIGHT
  /\ TerminalConditions(game)[4]
  /\ ~TerminalConditions(game)[5]
  /\ ~TerminalConditions(game)[6]
  /\ game.game_over
  /\ game.winner = 2

\* Would the terminal check let game g continue?
InProgress(g) == \A i \in 1 .. 6 : ~TerminalConditions(g)[i]

\* C7: a successful move that raises the turn count from 29 to 30 ends the
\* game for the Knights when none of the conditions 1-5 holds after it; and
\* when that move is made in a game still in progress, it always ends the
\* game for the Knights.
C7_SiegeAtThirty ==
  \A pos \in Inputs :
     LET res == attempt_move(game, pos[1], pos[2])
     IN (res.ok /\ game.turn_count = 29 /\ res.game.turn_count = 30) =>
          /\ (\A i \in 1 .. 5 : ~TerminalConditions(res.game)[i])
                => res.game.game_over /\ res.game.winner = 2
          /\ InProgress(game) => res.game.game_over /\ res.game.winner = 2

\* C7 witness: a Knight move has just raised the turn count from 29 to 30,
\* none of the conditions 1-5 holds, and the Knights have won by siege.
C7_Witness ==
  /\ Len(game.move_history) >= 1
  /\ LastMove(game).piece_moved = KNIGHT
  /\ LastMove(game).turn_count_before = 29
  /\ game.turn_count = 30
  /\ \A i \in 1 .. 5 : ~TerminalConditions(game)[i]
  /\ game.game_over
  /\ game.winner = 2

\* The game is a fresh game in which exactly the King move (2,2) -> (1,1)
\* has been made.
FirstMoveToOneOne ==
  /\ Len(game.move_history) = 1
  /\ game.move_history[1].board_state = create_board
  /\ game.move_history[1].start_pos = <<2, 2>>
  /\ game.move_history[1].end_pos = <<1, 1>>

\* The fresh game with the King selected.
FreshKingSelected ==
  /\ game.move_history = << >>
  /\ game.board = create_board
  /\ game.player_turn = 1
  /\ game.selected_piece_pos = <<2, 2>>

\* C8 as amended: in the fresh game (King on (2,2), Knights on the corners
\* (0,0), (0,4), (4,0), (4,4), King to move) the King move (2,2) -> (1,1)
\* succeeds; (1,1) is empty, so nothing is captured and the kill count stays
\* 0; the King stands on (1,1), all four Knights remain, and the turn passes
\* to the Knights.
C8_FirstMoveCapturesNothing ==
  /\ FreshKingSelected => attempt_move(game, 1, 1).ok
  /\ FirstMoveToOneOne =>
        /\ game.move_history[1].piece_moved = KING
        /\ game.move_history[1].piece_captured = EMPTY
        /\ game.king_kills = 0
        /\ PieceAt(game.board, <<1, 1>>) = KING
        /\ game.king_pos = <<1, 1>>
        /\ KnightSquares(game.board) = {<<0, 0>>, <<0, 4>>, <<4, 0>>, <<4, 4>>}
        /\ game.player_turn = 2

\* C8 witness: the fresh game after the King move (2,2) -> (1,1).
C8_Witness ==
  /\ FirstMoveToOneOne
  /\ game.king_pos = <<1, 1>>
  /\ game.player_turn = 2

\* C8 as stated: after that move the kill count is 1, the King stands on the
\* square, and it is the Knights' turn.
C8_Original ==
  FirstMoveToOneOne =>
     /\ game.king_kills = 1
     /\ PieceAt(game.board, <<1, 1>>) = KING
     /\ game.player_turn = 2

\* C9: every successful attempt_move flips the turn between 1 and 2 and
\* raises the turn count by exactly 1 when it was made on turn 2 and not at
\* all when made on turn 1; a failed attempt_move changes neither.
C9_TurnAndTurnCount ==
  /\ game.player_turn \in {1, 2}
  /\ \A pos \in Inputs :
        LET res == attempt_move(game, pos[1], pos[2])
        IN /\ res.ok =>
                /\ res.game.player_turn = 3 - game.player_turn
                /\ game.player_turn = 2 => res.game.turn_count = game.turn_count + 1
                /\ game.player_turn = 1 => res.game.turn_count = game.turn_count
           /\ ~res.ok =>
                /\ res.game.player_turn = game.player_turn
                /\ res.game.turn_count = game.turn_count

\* C9 witness: a full round has been played: the King moved on turn 1 with
\* the count unchanged, the Knights' move raised it to 2, and it is the
\* King's turn again.
C9_Witness ==
  /\ Len(game.move_history) = 2
  /\ game.move_history[1].player_turn_before = 1
  /\ game.move_history[2].player_turn_before = 2
  /\ game.move_history[2].turn_count_before = 1
  /\ game.turn_count = 2
  /\ game.player_turn = 1

\* The squares a Royal Charge may offer from game g, as the specification
\* words them.
ChargeSquares(g) ==
  {t \in Squares :
     /\ TwoSteps(g.king_pos, t)
     /\ PieceAt(g.board, t) \in {EMPTY, KNIGHT}
     /\ ~UnderAttack(g.board, t)}

\* C10 as amended: activating Royal Charge on the King's turn with cooldown 0
\* offers as move options only squares exactly two steps from the King along
\* a king direction (on the grid, Empty or Knight, not under attack); when
\* at least one such square exists it offers all of them, selects the King
\* and sets the cooldown to 5; when none exists it changes nothing and the
\* cooldown stays 0.
C10_ChargeOffersTwoStepSquares ==
  (game.player_turn = 1 /\ game.king_charge_cooldown = 0) =>
     LET res == activate_royal_charge(game)
     IN /\ res.ok <=> ChargeSquares(game) # {}
        /\ res.ok =>
             /\ Elements(res.game.possible_moves) = ChargeSquares(game)
             /\ res.game.selected_piece_pos = game.king_pos
             /\ res.game.king_charge_cooldown = 5
        /\ ~res.ok => res.game = game

\* C10 witness: a Royal Charge has just been activated after the King moved:
\* the cooldown is 5, the King is selected, and the move options are
\* squares two steps from him, none of them adjacent.
C10_Witness ==
  /\ Len(game.move_history) >= 2
  /\ game.player_turn = 1
  /\ game.king_charge_cooldown = 5
  /\ game.selected_piece_pos = game.king_pos
  /\ game.possible_moves # << >>
  /\ \A t \in Elements(game.possible_moves) : TwoSteps(game.king_pos, t)

\* C10 as stated: activating Royal Charge on the King's turn with cooldown 0
\* offers only two-step squares and sets the cooldown to 5.
C10_Original ==
  (game.player_turn = 1 /\ game.king_charge_cooldown = 0) =>
     LET res == activate_royal_charge(game)
     IN /\ res.ok => Elements(res.game.possible_moves) \subseteq ChargeSquares(game)
        /\ res.game.king_charge_cooldown = 5

\* C11 as stated: after a Royal Charge activated on the King's turn with
\* cooldown 0, attempt_move to every square the charge offers succeeds and
\* puts the King on that square.
C11_Original ==
  (game.player_turn = 1 /\ game.king_charge_cooldown = 0) =>
     LET charged == activate_royal_charge(game)
     IN charged.ok =>
          \A t \in Elements(charged.game.possible_moves) :
             LET res == attempt_move(charged.game, t[1], t[2])
             IN res.ok /\ res.game.king_pos = t

\* The escape squares of game g as the specification words them: Empty
\* squares that are not under attack and not king-adjacent to any Knight, and
\* Empty safe-zone squares.
EscapeSquares(g) ==
  {t \in Squares :
     /\ PieceAt(g.board, t) = EMPTY
     /\ \/ /\ ~UnderAttack(g.board, t)
           /\ ~\E n \in KnightSquares(g.board) : Adjacent(n, t)
        \/ t \in Elements(safe_zones)}

\* C12 as stated: activating Royal Escape on the King's turn with the escape
\* available, when an escape square exists, offers exactly the escape squares
\* as move options and makes the escape unavailable.
C12_Original ==
  (game.player_turn = 1 /\ game.king_escape_available /\ EscapeSquares(game) # {}) =>
     LET res == activate_royal_escape(game)
     IN /\ Elements(res.game.possible_moves) = EscapeSquares(game)
        /\ ~res.game.king_escape_available

\* The legal (Knight, destination) pairs of game g.
LegalKnightPairs(g) ==
  {mv \in KnightSquares(g.board) \X Squares :
     mv[2] \in Elements(get_valid_moves(g.board, mv[1][1], mv[1][2]))}

\* The board of g after the Knight move mv, were it made.
PostMoveBoard(g, mv) ==
  [g.board EXCEPT ![mv[1][1] + 1][mv[1][2] + 1] = EMPTY,
                  ![mv[2][1] + 1][mv[2][2] + 1] = KNIGHT]

\* The legal pairs whose post-move board has the greatest Evaluator score.
MaxScorePairs(g) ==
  LET scored == {<<mv, evaluate_board(PostMoveBoard(g, mv), g.king_pos, g.turn_count)>> :
                    mv \in LegalKnightPairs(g)}
      best == {p \in scored : \A q \in scored : q[2] <= p[2]}
  IN {p[1] : p \in best}

\* C13: in every reachable state with the Knights to move and a legal Knight
\* move, the moves ai_make_move can return are exactly the legal (Knight,
\* destination) pairs whose post-move board has the maximum Evaluator score:
\* never a lower-scoring move, and every tie can be returned.
C13_AiReturnsMaxScoreMoves ==
  (game.player_turn = 2 /\ LegalKnightPairs(game) # {}) =>
     ai_make_move(game).moves = MaxScorePairs(game)

\* C13 witness: the Knights are to move after a King move, two or more moves
\* tie for the best score and can be returned, and some legal move scores
\* lower and cannot.
C13_Witness ==
  /\ game.player_turn = 2
  /\ Len(game.move_history) >= 1
  /\ Cardinality(ai_make_move(game).moves) >= 2
  /\ ai_make_move(game).moves \subseteq LegalKnightPairs(game)
  /\ LegalKnightPairs(game) \ ai_make_move(game).moves # {}

\* C14: in every reachable state, ai_make_move returns None exactly when no
\* Knight on the board has a legal move; otherwise everything it can return is
\* a pair (from, to) with a Knight on from and to among the legal moves of
\* that Knight.
C14_AiNoneIffNoKnightMove ==
  LET returned == ai_make_move(game).moves
  IN /\ returned # {}
     /\ None \in returned <=> LegalKnightPairs(game) = {}
     /\ None \in returned => returned = {None}
     /\ \A mv \in returned \ {None} :
           /\ PieceAt(game.board, mv[1]) = KNIGHT
           /\ mv[2] \in Elements(get_valid_moves(game.board, mv[1][1], mv[1][2]))

\* C14 witness: the Knights are to move in a game that is not over, no Knight
\* has a legal move, and ai_make_move returns None.
C14_Witness ==
  /\ game.player_turn = 2
  /\ ~game.game_over
  /\ LegalKnightPairs(game) = {}
  /\ ai_make_move(game).moves = {None}

\* C15: in every reachable state with the Knights to move, the game after
\* ai_make_move has the board, king position, turn, turn count, kill count,
\* charge cooldown, escape flag, game_over, winner and move history of the game
\* before it; and a pass of the scoring loop over any one of the possible
\* moves leaves the board and king position as they were before the pass.
C15_AiLeavesGameUnchanged ==
  game.player_turn = 2 =>
     LET after == ai_make_move(game).game
     IN /\ after.board = game.board
        /\ after.king_pos = game.king_pos
        /\ after.player_turn = game.player_turn
        /\ after.turn_count = game.turn_count
        /\ after.king_kills = game.king_kills
        /\ after.king_charge_cooldown = game.king_charge_cooldown
        /\ after.king_escape_available = game.king_escape_available
        /\ after.game_over = game.game_over
        /\ after.winner = game.winner
        /\ after.move_history = game.move_history
        /\ \A mv \in Elements(possible_ai_moves(game)) :
              LET pass == ai_consider(ai_start(game), mv, game.board, game.king_pos).game
              IN pass.board = game.board /\ pass.king_pos = game.king_pos

\* C15 witness: the Knights are to move after a King move, ai_make_move has
\* several moves to score, each of them changes the board while it is
\* scored, and the game after the call is the game before it.
C15_Witness ==
  /\ game.player_turn = 2
  /\ Len(game.move_history) >= 1
  /\ Len(possible_ai_moves(game)) >= 2
  /\ \A mv \in Elements(possible_ai_moves(game)) : ai_try(game, mv) # game.board
  /\ ai_make_move(game).game = game

\* The number of Knights on board b.
KnightCount(b) == Cardinality(KnightSquares(b))

\* A step that is an undo of a recorded move.
IsUndoStep ==
  /\ Len(game.move_history) > 0
  /\ game' = undo_last_move(game).game
  /\ moves_left' = moves_left

\* C16 as amended: in every step that is not an undo (a move, a refused move,
\* a selection, an ability activation, an AI turn) the kill count does not
\* fall and the number of Knights does not rise; an undo gives back the kill
\* count and the Knights of the board recorded before the undone move, so
\* undoing a capture lowers the kill count by one and puts the Knight back.
C16_MonotoneExceptUndo ==
  [][IF IsUndoStep
     THEN /\ game'.king_kills = LastMove(game).king_kills_before
          /\ KnightSquares(game'.board) = KnightSquares(LastMove(game).board_state)
          /\ LastMove(game).piece_captured = KNIGHT =>
                /\ game'.king_kills = game.king_kills - 1
                /\ KnightCount(game'.board) = KnightCount(game.board) + 1
     ELSE /\ game'.king_kills >= game.king_kills
          /\ KnightCount(game'.board) <= KnightCount(game.board)]_vars

\* C16 witness: the King has just taken a Knight, which raised the kill
\* count and removed a Knight, and undoing that move lowers the count again
\* and brings the Knight back.
C16_Witness ==
  /\ Len(game.move_history) >= 1
  /\ LastMove(game).piece_captured = KNIGHT
  /\ game.king_kills = LastMove(game).king_kills_before + 1
  /\ KnightCount(game.board) = KnightCount(LastMove(game).board_state) - 1
  /\ undo_last_move(game).game.king_kills = game.king_kills - 1
  /\ KnightCount(undo_last_move(game).game.board) = KnightCount(game.board) + 1

\* C16 as stated: over every step, undo included, the kill count does not
\* fall and the number of Knights does not rise.
C16_Original ==
  [][/\ game'.king_kills >= game.king_kills
     /\ KnightCount(game'.board) <= KnightCount(game.board)]_vars

\* C17: in every reachable state with an empty move history, undo_last_move
\* fails and the game after it is the game before it, field for field: board,
\* king position, turn, turn count, kill count, cooldown, escape flag,
\* selection, game_over, winner and the empty history.
C17_UndoOnEmptyHistory ==
  game.move_history = << >> =>
     LET res == undo_last_move(game)
     IN /\ ~res.ok
        /\ res.game = game
        /\ res.game.move_history = << >>

\* C17 witness: the history is empty while the game is not in its initial
\* state (a Royal Charge has set the cooldown and selected the King), and
\* undo_last_move fails there.
C17_Witness ==
  /\ game.move_history = << >>
  /\ game.king_charge_cooldown = ChargeCooldown
  /\ game.selected_piece_pos = game.king_pos
  /\ ~undo_last_move(game).ok

\* Do games g and h agree on everything but the selection and its moves?
SameButSelection(g, h) ==
  [g EXCEPT !.selected_piece_pos = None, !.possible_moves = << >>]
    = [h EXCEPT !.selected_piece_pos = None, !.possible_moves = << >>]

\* C18: in every reachable state, get_valid_moves of a position outside the
\* grid, or of a square holding Empty, is empty; the selection that
\* attempt_move starts from is never outside the grid; and a move whose start
\* (given to select_piece) or destination (given to attempt_move) is outside
\* the grid returns failure and changes nothing but the selection.
C18_OffGridRejected ==
  /\ game.selected_piece_pos = None \/ game.selected_piece_pos \in Squares
  /\ \A pos \in Inputs :
        (pos \notin Squares \/ PieceAt(game.board, pos) = EMPTY) =>
           get_valid_moves(game.board, pos[1], pos[2]) = << >>
  /\ \A to \in OffGrid :
        LET res == attempt_move(game, to[1], to[2])
        IN ~res.ok /\ SameButSelection(res.game, game)
  /\ \A from \in Inputs, to \in Inputs :
        (from \in OffGrid \/ to \in OffGrid) =>
           LET picked == select_piece(game, from[1], from[2])
               res == attempt_move(picked.game, to[1], to[2])
           IN /\ from \in OffGrid => ~picked.ok /\ picked.game.selected_piece_pos = None
              /\ ~res.ok
              /\ SameButSelection(res.game, game)

\* C18 witness: after a move, a piece with legal moves is selected, and a
\* move of it to each position outside the grid is refused, as is the
\* selection of each such position.
C18_Witness ==
  /\ Len(game.move_history) >= 1
  /\ game.selected_piece_pos \in Squares
  /\ game.possible_moves # << >>
  /\ \A to \in OffGrid : ~attempt_move(game, to[1], to[2]).ok
  /\ \A from \in OffGrid : ~select_piece(game, from[1], from[2]).ok

\* C19: in every state reachable from a new game in which the game is not
\* over and the Knights are to move, some Knight has a legal move,
\* ai_make_move does not return None, and every move it can return is
\* accepted by attempt_move and passes the turn to the King.
C19_NoKnightDeadlock ==
  (~game.game_over /\ game.player_turn = 2) =>
     LET made == ai_make_move(game)
     IN /\ LegalKnightPairs(game) # {}
        /\ None \notin made.moves
        /\ \A ai_move \in made.moves :
              LET res == attempt_move([made.game EXCEPT !.selected_piece_pos = ai_move[1]],
                                      ai_move[2][1], ai_move[2][2])
              IN res.ok /\ res.game.player_turn = 1

\* C19 witness: the Knights are to move in a game in progress after the King
\* has taken a Knight, a Knight can move, and the AI's move would pass the
\* turn.
C19_Witness ==
  /\ ~game.game_over
  /\ game.player_turn = 2
  /\ game.king_kills >= 1
  /\ LegalKnightPairs(game) # {}
  /\ \E ai_move \in ai_make_move(game).moves :
        /\ ai_move # None
        /\ attempt_move([game EXCEPT !.selected_piece_pos = ai_move[1]],
                        ai_move[2][1], ai_move[2][2]).game.player_turn = 1

\* Is the surround condition (three or more Knights a knight's move from the
\* King) true in game g?
Surrounded(g) ==
  Cardinality({n \in KnightSquares(g.board) : KnightOffset(n, g.king_pos)}) >= 3

\* C20: after every successful King move, capture or not, no Knight stands a
\* knight's move from the King's square; and every successful move that
\* makes the surround condition true is a Knight move.
C20_KingNeverMovesIntoAttack ==
  \A pos \in Inputs :
     LET res == attempt_move(game, pos[1], pos[2])
     IN res.ok =>
          /\ PieceAt(game.board, game.selected_piece_pos) = KING =>
                /\ res.game.king_pos = pos
                /\ ~UnderAttack(res.game.board, res.game.king_pos)
                /\ ~Surrounded(res.game)
          /\ (~Surrounded(game) /\ Surrounded(res.game)) =>
                PieceAt(game.board, game.selected_piece_pos) = KNIGHT

\* C20 witness: the King, attacked by two Knights, has just taken a Knight,
\* and on the board after the move no Knight attacks his square.
C20_Witness ==
  /\ Len(game.move_history) >= 1
  /\ LastMove(game).piece_moved = KING
  /\ LastMove(game).piece_captured = KNIGHT
  /\ Cardinality({n \in KnightSquares(LastMove(game).board_state) :
                    KnightOffset(n, LastMove(game).king_pos_before)}) >= 2
  /\ game.king_pos = LastMove(game).end_pos
  /\ ~UnderAttack(game.board, game.king_pos)

\* ------------------------------------------------------------------- C21

C22_Original ==
  game.player_turn = 1 /\ game.king_charge_cooldown = 0 =>
     LET charged == activate_royal_charge(game)
     IN charged.ok =>
          \A pos \in Inputs :
             LET moved == attempt_move(charged.game, pos[1], pos[2])
             IN moved.ok => undo_last_move(moved.game).game.king_charge_cooldown = 0

\* ------------------------------------------------------------------- C23

\* The successful moves of a game without undo that has come to g: two for
\* every completed round and one more when the Knights are to move.
MovesPlayed(g) == 2 * (g.turn_count - 1) + (g.player_turn - 1)

\* The game after a click, and whether the click made a move.
ClickMoves(g, after) == Len(after.move_history) = Len(g.move_history) + 1

\* C23: in every state of a game driven by main, a game that is not over has
\* a turn count below 30 and the turn count is never above 30; a new game has
\* played 0 moves, every move made by a click or by the AI adds exactly one to
\* the moves played, and the moves played never exceed 58: a game without
\* undo is over after at most 58 successful moves.
C23_OverByTurnThirty ==
  /\ ~game.game_over => game.turn_count < SiegeTurns
  /\ game.turn_count <= SiegeTurns
  /\ MovesPlayed(game) <= 2 * (SiegeTurns - 1)
  /\ ~game.game_over => MovesPlayed(game) < 2 * (SiegeTurns - 1)
  /\ \A game_mode \in GameModes : MovesPlayed(Game(game_mode)) = 0
  /\ ~game.game_over /\ ~game.ai_thinking =>
        \A pos \in ClickPositions :
           LET after == handle_click(game, pos)
           IN ClickMoves(game, after) => MovesPlayed(after) = MovesPlayed(game) + 1
  /\ game.ai_thinking =>
        \A ai_move \in ai_make_move(game).moves :
           ai_move # None =>
              LET res == attempt_move([ai_make_move(game).game EXCEPT
                                         !.selected_piece_pos = ai_move[1]],
                                      ai_move[2][1], ai_move[2][2])
              IN res.ok => MovesPlayed(res.game) = MovesPlayed(game) + 1

\* C23 witness: a Knight move has just raised the turn count from 29 to 30,
\* which makes 58 moves played, and the game is over, won by the Knights.
C23_Witness ==
  /\ Len(game.move_history) >= 1
  /\ LastMove(game).piece_moved = KNIGHT
  /\ LastMove(game).turn_count_before = SiegeTurns - 1
  /\ game.turn_count = SiegeTurns
  /\ MovesPlayed(game) = 2 * (SiegeTurns - 1)
  /\ game.game_over /\ game.winner = 2

\* ------------------------------------------------------------------- C24

\* C24: in every state of a game driven by main with a move to undo, over or
\* not, the game undo_last_move gives has game_over FALSE and winner 0, and
\* check_game_over run on it leaves it as it is: it finds game_over FALSE and
\* winner 0 again.  While the game is not over the "u" key gives that game.
C24_UndoStateIsInProgress ==
  Len(game.move_history) > 0 =>
     LET undone == undo_last_move(game).game
     IN /\ ~undone.game_over
        /\ undone.winner = 0
        /\ ~check_game_over(undone).game_over
        /\ check_game_over(undone).winner = 0
        /\ check_game_over(undone) = undone
        /\ ~game.game_over /\ ~game.ai_thinking =>
              handle_keypress(game, "u", << >>) = undone

\* C24 witness: the game has just ended on the turn count reaching 30 (the
\* Knights won); undo_last_move goes back to turn count 29 with game_over
\* FALSE and winner 0, where check_game_over finds the same.
C24_Witness ==
  /\ Len(game.move_history) >= 1
  /\ game.game_over /\ game.winner = 2
  /\ game.turn_count = SiegeTurns
  /\ undo_last_move(game).game.turn_count = SiegeTurns - 1
  /\ ~undo_last_move(game).game.game_over
  /\ ~check_game_over(undo_last_move(game).game).game_over

\* ------------------------------------------------------------------- C25

\* The fields a record of the move history holds of the game g it was taken
\* from.
SnapshotOf(g) ==
  [board_state |-> g.board,
   king_kills_before |-> g.king_kills,
   player_turn_before |-> g.player_turn,
   king_pos_before |-> g.king_pos,
   turn_count_before |-> g.turn_count,
   charge_cd_before |-> g.king_charge_cooldown,
   escape_avail_before |-> g.king_escape_available]

\* The same fields of a record.
SnapshotIn(rec) ==
  [board_state |-> rec.board_state,
   king_kills_before |-> rec.king_kills_before,
   player_turn_before |-> rec.player_turn_before,
   king_pos_before |-> rec.king_pos_before,
   turn_count_before |-> rec.turn_count_before,
   charge_cd_before |-> rec.charge_cd_before,
   escape_avail_before |-> rec.escape_avail_before]

\* The game after n calls of undo_last_move.
RECURSIVE UndoTimes(_, _)
UndoTimes(g, n) == IF n = 0 THEN g ELSE UndoTimes(undo_last_move(g).game, n - 1)

\* The legal moves of the side to move, as (start, end) pairs.
LegalPairs(g) ==
  LET own == IF g.player_turn = 1 THEN KingSquares(g.board) ELSE KnightSquares(g.board)
  IN UNION {{<<start, end>> : end \in Elements(get_valid_moves(g.board, start[1], start[2]))} :
              start \in own}

\* The game after the move mv is made from its start square.
Play(g, mv) ==
  attempt_move([g EXCEPT !.selected_piece_pos = mv[1]], mv[2][1], mv[2][2]).game

\* C25: the move history is a stack of snapshots.  In every reachable state:
\* a successful attempt_move adds exactly one record on top, which holds the
\* board and the scalar fields of the game before the move, and leaves the
\* records below as they were; a refused one leaves the history alone; an
\* undo removes exactly the top record; for every n up to the length of the
\* history, n undos give the board and the scalar fields of the n-th record
\* from the top and leave the records below it; and two moves followed by two
\* undos give back the board, the scalar fields and the history.
C25_HistoryIsStackOfSnapshots ==
  LET history == game.move_history
      depth == Len(history)
  IN /\ \A pos \in Inputs :
           LET res == attempt_move(game, pos[1], pos[2])
               after == res.game.move_history
           IN IF res.ok
              THEN /\ Len(after) = depth + 1
                   /\ SubSeq(after, 1, depth) = history
                   /\ SnapshotIn(after[depth + 1]) = SnapshotOf(game)
              ELSE after = history
     /\ depth > 0 => undo_last_move(game).game.move_history = SubSeq(history, 1, depth - 1)
     /\ \A n \in 1 .. depth :
           LET back == UndoTimes(game, n)
           IN /\ SnapshotOf(back) = SnapshotIn(history[depth - n + 1])
              /\ back.move_history = SubSeq(history, 1, depth - n)
     /\ game.selected_piece_pos = None =>
           \A first \in LegalPairs(game) :
              \A second \in LegalPairs(Play(game, first)) :
                 LET back == UndoTimes(Play(Play(game, first), second), 2)
                 IN /\ SnapshotOf(back) = SnapshotOf(game)
                    /\ back.move_history = history

\* C25 witness: three moves have been made, one of them a capture by the
\* King, and three undos give back the board of a new game with no kills and
\* an empty history.
C25_Witness ==
  /\ Len(game.move_history) = 3
  /\ game.king_kills = 1
  /\ game.board # create_board
  /\ UndoTimes(game, 3).board = create_board
  /\ UndoTimes(game, 3).king_kills = 0
  /\ UndoTimes(game, 3).move_history = << >>

\* ------------------------------------------------------------------- C26

\* C26: in every reachable state the winner is 0, 1 or 2 and game_over is
\* TRUE exactly when the winner is not 0; the same holds of the game after
\* any attempt_move, after undo_last_move and after reset_game_state.
C26_GameOverIffWinner ==
  LET Consistent(g) == g.winner \in {0, 1, 2} /\ (g.game_over <=> g.winner # 0)
  IN /\ Consistent(game)
     /\ \A pos \in Inputs : Consistent(attempt_move(game, pos[1], pos[2]).game)
     /\ Consistent(undo_last_move(game).game)
     /\ Consistent(reset_game_state(game))

\* C26 witness: the game is over after a move and has a winner; undoing the
\* move and starting a new game both give game_over FALSE and winner 0.
C26_Witness ==
  /\ Len(game.move_history) >= 1
  /\ game.game_over
  /\ game.winner = 2
  /\ ~undo_last_move(game).game.game_over
  /\ undo_last_move(game).game.winner = 0
  /\ reset_game_state(game).winner = 0

\* ------------------------------------------------------------------- C27

\* The Knights with at least one legal destination within Manhattan distance
\* 2 of the King.
ThreateningKnights(b, king_pos) ==
  {k \in KnightSquares(b) :
     \E t \in Elements(get_valid_moves(b, k[1], k[2])) : Manhattan(t, king_pos) <= 2}

\* C27 as stated: on every reachable board the threat-proximity term of
\* evaluate_board, 5 for every time its loop adds 5, is 5 times the number of
\* Knights with a legal destination within Manhattan distance 2 of the King.
C27_Original ==
  5 * close_potential_moves(game.board, game.king_pos)
    = 5 * Cardinality(ThreateningKnights(game.board, game.king_pos))

\* ------------------------------------------------------------------- C28

\* C28: in every reachable state activate_royal_charge leaves the board, the
\* King's position, the turn, the turn count, the kill count, the escape flag,
\* the move history, game_over and winner as they are; and when it is not the
\* King's turn, or the cooldown is above 0, or no square two steps from the
\* King qualifies, the game after it is the game before it, cooldown,
\* selection and move options included.
C28_ChargeFrame ==
  LET after == activate_royal_charge(game).game
  IN /\ after.board = game.board
     /\ after.king_pos = game.king_pos
     /\ after.player_turn = game.player_turn
     /\ after.turn_count = game.turn_count
     /\ after.king_kills = game.king_kills
     /\ after.king_escape_available = game.king_escape_available
     /\ after.move_history = game.move_history
     /\ after.game_over = game.game_over
     /\ after.winner = game.winner
     /\ (game.player_turn # 1 \/ game.king_charge_cooldown > 0 \/ ChargeSquares(game) = {}) =>
           /\ after = game
           /\ ~activate_royal_charge(game).ok

\* C28 witness: it is the King's turn after earlier moves, squares two steps
\* from him qualify, but the cooldown runs (between 1 and 4) and nothing is
\* selected: the activation changes nothing.
C28_Witness ==
  /\ game.player_turn = 1
  /\ game.king_charge_cooldown \in 1 .. ChargeCooldown - 1
  /\ ChargeSquares(game) # {}
  /\ game.selected_piece_pos = None
  /\ Len(game.move_history) >= 2
  /\ activate_royal_charge(game).game = game

\* ------------------------------------------------------------------- C29

\* A step that made a move: the history has one record more.
IsMoveStep == Len(game'.move_history) = Len(game.move_history) + 1

C30_AiAndHumanExclusive ==
  /\ [](game.ai_thinking =>
          /\ \A pos \in ClickPositions : handle_click(game, pos) = game
          /\ \A key \in Keys, file \in DriverSaveFiles :
                handle_keypress(game, key, file) = game
          /\ \A pos \in Inputs : select_piece(game, pos[1], pos[2]) = Ret(game, FALSE))
  /\ [](game.game_mode = "pva" /\ game.player_turn = 2 =>
          /\ game.selected_piece_pos = None
          /\ \A pos \in ClickPositions : handle_click(game, pos) = game
          /\ \A pos \in Inputs : select_piece(game, pos[1], pos[2]) = Ret(game, FALSE))
  /\ [][game.game_mode = "pva" /\ IsMoveStep /\ LastMove(game').piece_moved = KNIGHT =>
          /\ game.ai_thinking
          /\ <<LastMove(game').start_pos, LastMove(game').end_pos>>
               \in ai_make_move(game).moves]_vars

\* C30 witness: the AI is thinking in a game against it, after a King move
\* that an accepted undo key would take back, with Knights a click could
\* otherwise select; the undo key changes nothing.
C30_Witness ==
  /\ game.ai_thinking
  /\ game.game_mode = "pva"
  /\ game.player_turn = 2
  /\ Len(game.move_history) >= 1
  /\ undo_last_move(game).game # game
  /\ LegalKnightPairs(game) # {}
  /\ handle_keypress(game, "u", << >>) = game

\* ------------------------------------------------------------------- C31

\* The piece of the side to move: the King on turn 1, a Knight on turn 2.
PieceOfSide(player_turn) == IF player_turn = 1 THEN KING ELSE KNIGHT

\* C31: in every state reached from a new game by moves and undos, the turn
\* and the turn counter are determined by the depth of the move history:
\* player_turn is 1 exactly when the history has even length, and turn_count
\* is 1 + (length div 2); and every move of the history was made by a piece
\* of the side whose turn it was (the King on turn 1, a Knight on turn 2),
\* at the turn and the turn count its depth determines.
C31_TurnFollowsHistoryDepth ==
  /\ (game.player_turn = 1) <=> (Len(game.move_history) % 2 = 0)
  /\ game.player_turn \in {1, 2}
  /\ game.turn_count = 1 + (Len(game.move_history) \div 2)
  /\ \A i \in 1..Len(game.move_history) :
        LET move == game.move_history[i]
        IN /\ (move.player_turn_before = 1) <=> ((i - 1) % 2 = 0)
           /\ move.player_turn_before \in {1, 2}
           /\ move.turn_count_before = 1 + ((i - 1) \div 2)
           /\ move.piece_moved = PieceOfSide(move.player_turn_before)
           /\ Cell(move.board_state, move.start_pos[1], move.start_pos[2])
                = PieceOfSide(move.player_turn_before)

\* C31 witness: a game between two players three moves deep with a fourth
\* move taken back: the Knights are to move in turn 2, and both sides have
\* moved.
C31_Witness ==
  /\ game.game_mode = "pvp"
  /\ Len(game.move_history) = 3
  /\ moves_left = 0
  /\ game.player_turn = 2
  /\ game.turn_count = 2
  /\ game.move_history[2].piece_moved = KNIGHT
  /\ game.move_history[3].piece_moved = KING

====
